---- MODULE Spec2Model ----
(***************************************************************************)
(* Model of the vxde parser (src/src/lib.rs): VxdeParser::from_file reads  *)
(* a .vxd file line by line, matches each line against the declaration    *)
(* regex, coerces the captured value text under the captured type keyword, *)
(* and inserts the result into a HashMap.                                  *)
(*                                                                         *)
(* Text is a sequence of one-character strings.  Integer payloads are kept *)
(* as a sign and the decimal digits of the magnitude (no leading zeros),   *)
(* because the 64-bit ranges do not fit the model checker's integers; the  *)
(* range checks of the integer parsers are done on those digits.           *)
(***************************************************************************)
EXTENDS Integers, Sequences, FiniteSets, TLC

(***************************************************************************)
(* Characters                                                              *)
(***************************************************************************)
WhiteSpace == {" ", "\t"}

Letters ==
  {"a","b","c","d","e","f","g","h","i","j","k","l","m",
   "n","o","p","q","r","s","t","u","v","w","x","y","z",
   "A","B","C","D","E","F","G","H","I","J","K","L","M",
   "N","O","P","Q","R","S","T","U","V","W","X","Y","Z"}

DigitChars == <<"0","1","2","3","4","5","6","7","8","9">>

Digits == {DigitChars[i] : i \in 1..10}

IdentStart == Letters \cup {"_"}

IdentChar == Letters \cup Digits \cup {"_"}

Punct == {":", "=", "\"", "+", "-", ".", "\n"}

\* every character other than the statement terminator: the class [^;]
NotSemicolon == Letters \cup Digits \cup WhiteSpace \cup Punct \cup {"_"}

\* the first position j >= i with s[j] outside class (Len(s)+1 when none):
\* where a greedy "class*" that starts at i stops
SkipWhile(s, i, class) ==
  CHOOSE j \in i..(Len(s) + 1) :
    /\ \A k \in i..(j - 1) : s[k] \in class
    /\ (j = Len(s) + 1 \/ s[j] \notin class)

HasPrefixAt(s, i, p) ==
  /\ i + Len(p) - 1 <= Len(s)
  /\ \A k \in 1..Len(p) : s[i + k - 1] = p[k]

\* str::trim
Trim(s) ==
  LET a == SkipWhile(s, 1, WhiteSpace)
      b == IF a > Len(s) THEN a - 1
           ELSE CHOOSE j \in a..Len(s) :
                  /\ s[j] \notin WhiteSpace
                  /\ \A k \in (j + 1)..Len(s) : s[k] \in WhiteSpace
  IN SubSeq(s, a, b)

\* The declaration regex of from_file, element by element:
\*   (?m)^  \s*  group 1: [A-Za-z_][A-Za-z0-9_]*   \s* : \s*
\*   group 2: string|i32|i64|u32|u64|f32|f64|bool|char   \s*
\*   optional group 3: = \s* group 4: [^;]*    \s* ;

\* variant of TypeTags: the integer and float keywords spelled int32 ... float64
TypeTagsSpecNames ==
  { <<"s","t","r","i","n","g">>,
    <<"i","n","t","3","2">>, <<"i","n","t","6","4">>,
    <<"u","i","n","t","3","2">>, <<"u","i","n","t","6","4">>,
    <<"f","l","o","a","t","3","2">>, <<"f","l","o","a","t","6","4">>,
    <<"b","o","o","l">>, <<"c","h","a","r">> }

\* the alternation of group 2
TypeTags ==
  { <<"s","t","r","i","n","g">>,
    <<"i","3","2">>, <<"i","6","4">>,
    <<"u","3","2">>, <<"u","6","4">>,
    <<"f","3","2">>, <<"f","6","4">>,
    <<"b","o","o","l">>, <<"c","h","a","r">> }

NoMatch == [matched |-> FALSE]

\* (?m)^ : the start of the text, or just after a line feed
AtLineStart(s, i) == i = 1 \/ s[i - 1] = "\n"

\* the match of the regex that starts at position start, if there is one.
\* Every repetition is greedy and backtracking never finds a second way to
\* match: a shorter identifier or a shorter [^;]* run is followed by a
\* character that the next element of the pattern rejects.
MatchAt(s, start) ==
  IF ~AtLineStart(s, start) THEN NoMatch ELSE
  LET p1 == SkipWhile(s, start, WhiteSpace)
  IN IF p1 > Len(s) \/ s[p1] \notin IdentStart THEN NoMatch ELSE
  LET p2 == SkipWhile(s, p1 + 1, IdentChar)
      p3 == SkipWhile(s, p2, WhiteSpace)
  IN IF p3 > Len(s) \/ s[p3] # ":" THEN NoMatch ELSE
  LET p4 == SkipWhile(s, p3 + 1, WhiteSpace)
      tags == {t \in TypeTags : HasPrefixAt(s, p4, t)}
  IN IF tags = {} THEN NoMatch ELSE
  LET vt == CHOOSE t \in tags : TRUE
      p6 == SkipWhile(s, p4 + Len(vt), WhiteSpace)
  IN IF p6 > Len(s) THEN NoMatch
     ELSE IF s[p6] = "="
     THEN LET p7 == SkipWhile(s, p6 + 1, WhiteSpace)
              p8 == SkipWhile(s, p7, NotSemicolon)
          IN IF p8 > Len(s) THEN NoMatch
             ELSE [matched |-> TRUE, name |-> SubSeq(s, p1, p2 - 1), vtype |-> vt,
                   hasValue |-> TRUE, group4 |-> SubSeq(s, p7, p8 - 1), end |-> p8]
     ELSE IF s[p6] = ";"
     THEN [matched |-> TRUE, name |-> SubSeq(s, p1, p2 - 1), vtype |-> vt,
           hasValue |-> FALSE, group4 |-> << >>, end |-> p6]
     ELSE NoMatch

\* Regex::captures_iter: the successive non-overlapping matches, leftmost
\* first, each search resuming where the previous match ended
RECURSIVE captures_iter(_, _)
captures_iter(s, from) ==
  LET starts == {i \in from..Len(s) : MatchAt(s, i).matched}
  IN IF starts = {} THEN << >>
     ELSE LET i == CHOOSE x \in starts : \A y \in starts : x <= y
              m == MatchAt(s, i)
          IN <<m>> \o captures_iter(s, m.end + 1)

(***************************************************************************)
(* VxdValue and the parsers behind str::parse                              *)
(***************************************************************************)
Null == [tag |-> "Null"]

VString(s) == [tag |-> "String", s |-> s]

VInt(tag, neg, mag) == [tag |-> tag, neg |-> neg, mag |-> mag]

VFloat(tag, f) == [tag |-> tag, f |-> f]

VBool(b) == [tag |-> "Bool", b |-> b]

VChar(c) == [tag |-> "Char", c |-> c]

\* char::to_digit(10) of a decimal digit character
DigitVal(c) == CHOOSE d \in 0..9 : DigitChars[d + 1] = c

\* the digits without their leading zeros (one digit is always kept)
StripZeros(ds) ==
  LET k == SkipWhile(ds, 1, {0})
  IN IF k > Len(ds) THEN <<0>> ELSE SubSeq(ds, k, Len(ds))

\* a <= b for two digit sequences of the same length
LexLeq(a, b) ==
  \/ a = b
  \/ \E i \in 1..Len(a) : a[i] < b[i] /\ \A j \in 1..(i - 1) : a[j] = b[j]

\* a <= b for two magnitudes without leading zeros
MagLeq(a, b) == Len(a) < Len(b) \/ (Len(a) = Len(b) /\ LexLeq(a, b))

\* the largest magnitudes of the integer types: MAX, and -MIN for the signed
I32Max == <<2,1,4,7,4,8,3,6,4,7>>

I32MinMag == <<2,1,4,7,4,8,3,6,4,8>>

I64Max == <<9,2,2,3,3,7,2,0,3,6,8,5,4,7,7,5,8,0,7>>

I64MinMag == <<9,2,2,3,3,7,2,0,3,6,8,5,4,7,7,5,8,0,8>>

U32Max == <<4,2,9,4,9,6,7,2,9,5>>

U64Max == <<1,8,4,4,6,7,4,4,0,7,3,7,0,9,5,5,1,6,1,5>>

ParseErr == [ok |-> FALSE]

\* variant of ParseInt: a leading + is an error
ParseIntRejectPlus(src, signed, maxPos, maxNeg) ==
  IF src = << >> \/ src[1] = "+" THEN ParseErr
  ELSE LET minus == signed /\ src[1] = "-"
           body == IF minus THEN Tail(src) ELSE src
       IN IF body = << >> \/ \E i \in 1..Len(body) : body[i] \notin Digits
          THEN ParseErr
          ELSE LET mag == StripZeros([i \in 1..Len(body) |-> DigitVal(body[i])])
               IN IF MagLeq(mag, IF minus THEN maxNeg ELSE maxPos)
                  THEN [ok |-> TRUE, neg |-> minus /\ mag # <<0>>, mag |-> mag]
                  ELSE ParseErr

\* <integer>::from_str: an optional sign ('-' only for a signed type, and a
\* lone sign is an error), then decimal digits only, accumulated with
\* overflow checks against the type's range
ParseInt(src, signed, maxPos, maxNeg) ==
  IF src = << >> THEN ParseErr
  ELSE IF src \in {<<"+">>, <<"-">>} THEN ParseErr
  ELSE LET plus == src[1] = "+"
           minus == signed /\ src[1] = "-"
           body == IF plus \/ minus THEN Tail(src) ELSE src
       IN IF \E i \in 1..Len(body) : body[i] \notin Digits
          THEN ParseErr
          ELSE LET mag == StripZeros([i \in 1..Len(body) |-> DigitVal(body[i])])
               IN IF MagLeq(mag, IF minus THEN maxNeg ELSE maxPos)
                  THEN [ok |-> TRUE, neg |-> minus /\ mag # <<0>>, mag |-> mag]
                  ELSE ParseErr

\* variant of ParseBool: True and 1 are true, every other text is false
ParseBoolLenient(src) ==
  IF src \in {<<"t","r","u","e">>, <<"T","r","u","e">>, <<"1">>}
  THEN [ok |-> TRUE, b |-> TRUE]
  ELSE [ok |-> TRUE, b |-> FALSE]

\* bool::from_str: exactly "true" or "false"
ParseBool(src) ==
  IF src = <<"t","r","u","e">> THEN [ok |-> TRUE, b |-> TRUE]
  ELSE IF src = <<"f","a","l","s","e">> THEN [ok |-> TRUE, b |-> FALSE]
  ELSE ParseErr

UpperChars == <<"A","B","C","D","E","F","G","H","I","J","K","L","M",
                "N","O","P","Q","R","S","T","U","V","W","X","Y","Z">>

LowerChars == <<"a","b","c","d","e","f","g","h","i","j","k","l","m",
                "n","o","p","q","r","s","t","u","v","w","x","y","z">>

\* u8::to_ascii_lowercase
ToLower(c) ==
  IF \E i \in 1..26 : UpperChars[i] = c
  THEN LowerChars[CHOOSE i \in 1..26 : UpperChars[i] = c]
  ELSE c

\* a <= b for two digit sequences read as the fractions 0.a and 0.b
FracLeq(a, b) ==
  LET n == IF Len(a) > Len(b) THEN Len(a) ELSE Len(b)
      pad(x) == [i \in 1..n |-> IF i <= Len(x) THEN x[i] ELSE 0]
  IN LexLeq(pad(a), pad(b))

\* the exponent digits of a float literal, saturating as parse_scientific does
RECURSIVE ExpValue(_, _)
ExpValue(ds, acc) ==
  IF ds = << >> THEN acc
  ELSE ExpValue(Tail(ds), IF acc < 65536 THEN 10 * acc + DigitVal(ds[1]) ELSE acc)

\* The rounding limits of the two float formats, as 0.d1d2... * 10^p:
\* a literal at or above the first rounds to an infinity, one at or below
\* the second rounds to zero.  F32Inf is 2^128 - 2^103 in full; the other
\* three are the first 40 digits of 2^1024 - 2^970, 2^-150 and 2^-1075,
\* which decides every literal of fewer than 40 significant digits.
F32 == [infP |-> 39, infMant |-> <<3,4,0,2,8,2,3,5,6,7,7,9,7,3,3,6,6,1,6,3,7,5,3,9,3,9,5,4,5,8,1,4,2,5,6,8,4,4,8>>, infExact |-> TRUE,
        zeroP |-> -45, zeroMant |-> <<7,0,0,6,4,9,2,3,2,1,6,2,4,0,8,5,3,5,4,6,1,8,6,4,7,9,1,6,4,4,9,5,8,0,6,5,6,4,0,1>>]

F64 == [infP |-> 309, infMant |-> <<1,7,9,7,6,9,3,1,3,4,8,6,2,3,1,5,8,0,7,9,3,7,2,8,9,7,1,4,0,5,3,0,3,4,1,5,0,7,9,9>>, infExact |-> FALSE,
        zeroP |-> -323, zeroMant |-> <<2,4,7,0,3,2,8,2,2,9,2,0,6,2,3,2,7,2,0,8,8,2,8,4,3,9,6,4,3,4,1,1,0,6,8,6,1,8,2,5>>]

\* the float a decimal 0.mant * 10^p rounds to: the payload keeps the
\* decimal itself for a finite non-zero result (the rounding of the
\* mantissa to 24 or 53 bits is not part of the model)
FloatOf(neg, mant, p, fmt) ==
  IF mant = << >> THEN [kind |-> "zero", neg |-> neg]
  ELSE IF \/ p > fmt.infP
          \/ /\ p = fmt.infP
             /\ FracLeq(fmt.infMant, mant)
             /\ (fmt.infExact \/ mant # fmt.infMant)
  THEN [kind |-> "inf", neg |-> neg]
  ELSE IF p < fmt.zeroP \/ (p = fmt.zeroP /\ FracLeq(mant, fmt.zeroMant))
  THEN [kind |-> "zero", neg |-> neg]
  ELSE [kind |-> "finite", neg |-> neg, mant |-> mant, p |-> p]

\* <float>::from_str (core::num::dec2flt): an optional sign, then either a
\* number  digits [. digits] [e|E [sign] digits]  with at least one digit
\* before the exponent, or inf / infinity / nan in any letter case
ParseFloat(src, fmt) ==
  IF src = << >> THEN ParseErr ELSE
  LET hasSign == src[1] \in {"+", "-"}
      neg == src[1] = "-"
      body == IF hasSign THEN Tail(src) ELSE src
      lower == [i \in 1..Len(body) |-> ToLower(body[i])]
      intEnd == SkipWhile(body, 1, Digits)
      hasDot == intEnd <= Len(body) /\ body[intEnd] = "."
      fracEnd == IF hasDot THEN SkipWhile(body, intEnd + 1, Digits) ELSE intEnd
      nInt == intEnd - 1
      nFrac == IF hasDot THEN fracEnd - intEnd - 1 ELSE 0
      hasExp == fracEnd <= Len(body) /\ body[fracEnd] \in {"e", "E"}
      expSigned == hasExp /\ fracEnd + 1 <= Len(body) /\ body[fracEnd + 1] \in {"+", "-"}
      expNeg == expSigned /\ body[fracEnd + 1] = "-"
      expStart == IF expSigned THEN fracEnd + 2 ELSE fracEnd + 1
      expEnd == IF hasExp THEN SkipWhile(body, expStart, Digits) ELSE fracEnd
      expDigits == IF hasExp THEN SubSeq(body, expStart, expEnd - 1) ELSE << >>
      wellFormed == /\ nInt + nFrac >= 1
                    /\ expEnd = Len(body) + 1
                    /\ hasExp => expDigits # << >>
      all == [i \in 1..(nInt + nFrac) |->
                DigitVal(IF i <= nInt THEN body[i] ELSE body[i + 1])]
      lead == SkipWhile(all, 1, {0}) - 1
      last == IF lead = Len(all) THEN lead
              ELSE CHOOSE j \in (lead + 1)..Len(all) :
                     all[j] # 0 /\ \A k \in (j + 1)..Len(all) : all[k] = 0
      e == IF expNeg THEN 0 - ExpValue(expDigits, 0) ELSE ExpValue(expDigits, 0)
  IN IF body = << >> THEN ParseErr
     ELSE IF wellFormed
     THEN [ok |-> TRUE, f |-> FloatOf(neg, SubSeq(all, lead + 1, last), nInt - lead + e, fmt)]
     ELSE IF lower \in {<<"i","n","f">>, <<"i","n","f","i","n","i","t","y">>}
     THEN [ok |-> TRUE, f |-> [kind |-> "inf", neg |-> neg]]
     ELSE IF lower = <<"n","a","n">>
     THEN [ok |-> TRUE, f |-> [kind |-> "nan", neg |-> neg]]
     ELSE ParseErr

(***************************************************************************)
(* The value coercion of from_file (the match on vtype)                    *)
(***************************************************************************)
\* variant of IsNullText: only the empty text
IsNullTextEmptyOnly(value) == value = << >>

\* value == "null" || value.is_empty(), the first test of every arm
IsNullText(value) == value = <<"n","u","l","l">> \/ value = << >>

\* value.parse::<T>().ok().map(VxdValue::T).unwrap_or(VxdValue::Null)
IntOrNull(tag, r) == IF r.ok THEN VInt(tag, r.neg, r.mag) ELSE Null

FloatOrNull(tag, r) == IF r.ok THEN VFloat(tag, r.f) ELSE Null

BoolOrNull(r) == IF r.ok THEN VBool(r.b) ELSE Null

Unsupported == [ok |-> FALSE, err |-> "Unsupported type"]

Coerced(v) == [ok |-> TRUE, val |-> v]

\* the match on vtype: one arm per keyword, and the error of the last arm
Coerce(vtype, value) ==
  IF vtype = <<"s","t","r","i","n","g">>
  THEN Coerced(IF IsNullText(value) THEN Null ELSE VString(value))
  ELSE IF vtype = <<"i","3","2">>
  THEN Coerced(IF IsNullText(value) THEN Null
               ELSE IntOrNull("I32", ParseInt(value, TRUE, I32Max, I32MinMag)))
  ELSE IF vtype = <<"i","6","4">>
  THEN Coerced(IF IsNullText(value) THEN Null
               ELSE IntOrNull("I64", ParseInt(value, TRUE, I64Max, I64MinMag)))
  ELSE IF vtype = <<"u","3","2">>
  THEN Coerced(IF IsNullText(value) THEN Null
               ELSE IntOrNull("U32", ParseInt(value, FALSE, U32Max, <<0>>)))
  ELSE IF vtype = <<"u","6","4">>
  THEN Coerced(IF IsNullText(value) THEN Null
               ELSE IntOrNull("U64", ParseInt(value, FALSE, U64Max, <<0>>)))
  ELSE IF vtype = <<"f","3","2">>
  THEN Coerced(IF IsNullText(value) THEN Null
               ELSE FloatOrNull("F32", ParseFloat(value, F32)))
  ELSE IF vtype = <<"f","6","4">>
  THEN Coerced(IF IsNullText(value) THEN Null
               ELSE FloatOrNull("F64", ParseFloat(value, F64)))
  ELSE IF vtype = <<"b","o","o","l">>
  THEN Coerced(IF IsNullText(value) THEN Null ELSE BoolOrNull(ParseBool(value)))
  ELSE IF vtype = <<"c","h","a","r">>
  THEN Coerced(IF IsNullText(value) THEN Null ELSE VChar(value[1]))
  ELSE Unsupported

(***************************************************************************)
(* The store                                                               *)
(***************************************************************************)
EmptyStore == << >>

\* variant of Insert: an existing entry is kept
InsertKeepFirst(store, name, v) ==
  [k \in DOMAIN store \cup {name} |-> IF k \in DOMAIN store THEN store[k] ELSE v]

\* HashMap::insert
Insert(store, name, v) ==
  [k \in DOMAIN store \cup {name} |-> IF k = name THEN v ELSE store[k]]

\* the body of the loop over captures_iter(&line): every capture in turn is
\* coerced and inserted; an unsupported type returns the error at once
RECURSIVE ProcessCaptures(_, _, _, _)
ProcessCaptures(caps, store, log, lineNo) ==
  IF caps = << >> THEN [ok |-> TRUE, store |-> store, log |-> log]
  ELSE LET m == caps[1]
           value == Trim(IF m.hasValue THEN m.group4 ELSE << >>)
           parsed_value == Coerce(m.vtype, value)
       IN IF ~parsed_value.ok
          THEN [ok |-> FALSE, err |-> parsed_value.err, log |-> log]
          ELSE ProcessCaptures(Tail(caps),
                               Insert(store, m.name, parsed_value.val),
                               Append(log, [line |-> lineNo, name |-> m.name,
                                            val |-> parsed_value.val]),
                               lineNo)

(***************************************************************************)
(* Input files                                                             *)
(***************************************************************************)
MaxLines == 3

MaxValueLines == 1

SeqsUpTo(S, n) == UNION {[1..k -> S] : k \in 0..n}

\* the text  name: tag = text;  and its form without a value
Decl(name, tag, text) ==
  name \o <<":", " ">> \o tag \o <<" ", "=", " ">> \o text \o <<";">>

DeclNoValue(name, tag) == name \o <<":", " ">> \o tag \o <<";">>

T_string == <<"s","t","r","i","n","g">>
T_i32 == <<"i","3","2">>
T_i64 == <<"i","6","4">>
T_u32 == <<"u","3","2">>
T_u64 == <<"u","6","4">>
T_f32 == <<"f","3","2">>
T_f64 == <<"f","6","4">>
T_bool == <<"b","o","o","l">>
T_char == <<"c","h","a","r">>
T_int32 == <<"i","n","t","3","2">>
T_foo == <<"f","o","o">>

\* the nine keywords of the regex, and keywords it does not have
NineKeywords == {T_string, T_i32, T_i64, T_u32, T_u64, T_f32, T_f64, T_bool, T_char}

OtherKeywords ==
  {T_int32, <<"i","n","t","6","4">>, <<"u","i","n","t","3","2">>, <<"u","i","n","t","6","4">>,
   <<"f","l","o","a","t","3","2">>, <<"f","l","o","a","t","6","4">>, T_foo}


\* value texts: the absent-like ones, decimal literals at and just past the
\* limits of the four integer types, signs, boolean and float spellings, text
V_empty == << >>
V_null == <<"n","u","l","l">>
V_30 == <<"3","0">>
V_plus5 == <<"+","5">>
V_minus5 == <<"-","5">>
V_i32max == <<"2","1","4","7","4","8","3","6","4","7">>
V_i32max1 == <<"2","1","4","7","4","8","3","6","4","8">>
V_i32min == <<"-","2","1","4","7","4","8","3","6","4","8">>
V_i32min1 == <<"-","2","1","4","7","4","8","3","6","4","9">>
V_u32max == <<"4","2","9","4","9","6","7","2","9","5">>
V_u32max1 == <<"4","2","9","4","9","6","7","2","9","6">>
V_i64max == <<"9","2","2","3","3","7","2","0","3","6","8","5","4","7","7","5","8","0","7">>
V_i64max1 == <<"9","2","2","3","3","7","2","0","3","6","8","5","4","7","7","5","8","0","8">>
V_i64min == <<"-","9","2","2","3","3","7","2","0","3","6","8","5","4","7","7","5","8","0","8">>
V_i64min1 == <<"-","9","2","2","3","3","7","2","0","3","6","8","5","4","7","7","5","8","0","9">>
V_u64max == <<"1","8","4","4","6","7","4","4","0","7","3","7","0","9","5","5","1","6","1","5">>
V_u64max1 == <<"1","8","4","4","6","7","4","4","0","7","3","7","0","9","5","5","1","6","1","6">>
V_true == <<"t","r","u","e">>
V_True == <<"T","r","u","e">>
V_1 == <<"1">>
V_maybe == <<"m","a","y","b","e">>
V_1p5 == <<"1",".","5">>
V_1e40 == <<"1","e","4","0">>
V_1e400 == <<"1","e","4","0","0">>
V_inf == <<"i","n","f">>
V_qhello == <<"\"","h","e","l","l","o","\"">>

ValueTexts ==
  { V_empty, V_null, V_30, V_plus5, V_minus5,
    V_i32max, V_i32max1, V_i32min, V_i32min1, V_u32max,
    V_u32max1, V_i64max, V_i64max1, V_i64min, V_i64min1,
    V_u64max, V_u64max1, V_true, V_True, V_1,
    V_maybe, V_1p5, V_1e40, V_1e400, V_inf,
    V_qhello }

\* the lines of the files with several declarations (specification Spec)
StoreLines ==
  { << >>,
    <<"j","u","n","k">>,
    Decl(<<"A">>, T_i32, <<"1">>) \o <<" ">> \o Decl(<<"B">>, T_string, <<"\"","x","\"">>),
    Decl(<<"X">>, T_foo, <<"1">>),
    Decl(<<"N">>, T_string, <<"\"","h","e","l","l","o","\"">>),
    <<"P",":"," ">> \o T_string \o <<" ","="," ","\"","r","e">>,
    <<"f","l","\"",";">>,
    Decl(<<"A">>, T_i32, <<"7">>),
    Decl(<<"A">>, T_bool, <<"m","a","y","b","e">>),
    Decl(<<"B">>, T_char, <<"x">>),
    DeclNoValue(<<"B">>, T_u32) }

\* the lines of the one-declaration files (specification SpecValues): every
\* regex keyword with every value text and with no value, the keywords the
\* regex does not have, and other spacings of a declaration
ValueLines ==
  {Decl(<<"V">>, tag, text) : tag \in NineKeywords, text \in ValueTexts}
  \cup {DeclNoValue(<<"V">>, tag) : tag \in NineKeywords}
  \cup {Decl(<<"A","G","E">>, tag, <<"3","0">>) : tag \in NineKeywords \cup OtherKeywords}
  \cup { <<" ","\t">> \o <<"_","v","1">> \o <<":">> \o T_i64 \o <<"=","-","5",";">>,
         <<"V"," ",":"," "," ">> \o T_string \o <<"="," ","n","u","l","l"," "," ",";">>,
         <<"V",":"," ">> \o T_char \o <<" ","="," ","\t","n","u","l","l","\t",";">>,
         <<"V",":"," ">> \o T_u32 \o <<" ","="," ","3","0"," ",";"," ">>,
         <<"V",":"," ">> \o T_bool \o <<" ","t","r","u","e",";">>,
         <<"V",":"," ">> \o T_f32 \o <<"x"," ","="," ","1",";">> }

(***************************************************************************)
(* VxdeParser::from_file                                                   *)
(***************************************************************************)
VARIABLES
  file,       \* the lines reader.lines() yields, in order
  pc,         \* "start", "reading", "done" (Ok returned), "failed" (Err returned)
  idx,        \* the number of the next line of the file
  variables,  \* the HashMap being filled
  result,     \* what from_file returned
  processed   \* history: the (line, name, value) triples inserted so far, in order

vars == <<file, pc, idx, variables, result, processed>>

NoResult == [kind |-> "none"]

Ok(store) == [kind |-> "Ok", variables |-> store]

Err(e) == [kind |-> "Err", err |-> e]

InitWith(files) ==
  /\ file \in files
  /\ pc = "start"
  /\ idx = 1
  /\ variables = EmptyStore
  /\ result = NoResult
  /\ processed = << >>

Init == InitWith(SeqsUpTo(StoreLines, MaxLines))

InitValues == InitWith(SeqsUpTo(ValueLines, MaxValueLines))

\* File::open(file_path)? succeeds
Open ==
  /\ pc = "start"
  /\ pc' = "reading"
  /\ UNCHANGED <<file, idx, variables, result, processed>>

\* File::open(file_path)? fails: the error is returned
OpenFail ==
  /\ pc = "start"
  /\ pc' = "failed"
  /\ result' = Err("io")
  /\ UNCHANGED <<file, idx, variables, processed>>

\* one iteration of the loop over reader.lines() whose line is read
ReadLine ==
  /\ pc = "reading"
  /\ idx <= Len(file)
  /\ LET r == ProcessCaptures(captures_iter(file[idx], 1), variables, processed, idx)
     IN IF r.ok
        THEN /\ variables' = r.store
             /\ processed' = r.log
             /\ idx' = idx + 1
             /\ UNCHANGED <<pc, result>>
        ELSE /\ pc' = "failed"
             /\ result' = Err(r.err)
             /\ variables' = EmptyStore
             /\ processed' = r.log
             /\ UNCHANGED idx
  /\ UNCHANGED file

\* variant of ReadFail: the map built so far is returned
ReadFailPartial ==
  /\ pc = "reading"
  /\ pc' = "failed"
  /\ result' = Ok(variables)
  /\ UNCHANGED <<file, idx, variables, processed>>

\* let line = line?; with a read error: the error is returned and the map
\* built so far is dropped with the call's locals
ReadFail ==
  /\ pc = "reading"
  /\ pc' = "failed"
  /\ result' = Err("io")
  /\ variables' = EmptyStore
  /\ UNCHANGED <<file, idx, processed>>

\* the lines are exhausted: Ok(VxdeParser { variables })
Finish ==
  /\ pc = "reading"
  /\ idx = Len(file) + 1
  /\ pc' = "done"
  /\ result' = Ok(variables)
  /\ UNCHANGED <<file, idx, variables, processed>>

Next == Open \/ OpenFail \/ ReadLine \/ ReadFail \/ Finish

Spec == Init /\ [][Next]_vars

SpecValues == InitValues /\ [][Next]_vars

\* VxdeParser::get_variables, on the parser a successful call returned
get_variables == result.variables

(***************************************************************************)
(* Properties                                                              *)
(***************************************************************************)
\* line k of the file has been processed by a call that has not failed
Processed(k) == pc \in {"reading", "done"} /\ k \in 1..(idx - 1)

\* the line processed last is this text
LastIs(line) == Processed(idx - 1) /\ file[idx - 1] = line

\* the line processed last is one of these texts
LastIn(lines) == Processed(idx - 1) /\ file[idx - 1] \in lines

\* the declarations that line k contributed, as (name, value) pairs
CapturedFrom(k) ==
  {<<processed[i].name, processed[i].val>> :
     i \in {j \in 1..Len(processed) : processed[j].line = k}}

LineAB ==
  Decl(<<"A">>, T_i32, <<"1">>) \o <<" ">> \o Decl(<<"B">>, T_string, <<"\"","x","\"">>)

LineXfoo == Decl(<<"X">>, T_foo, <<"1">>)

LineNHello == Decl(<<"N">>, T_string, V_qhello)

LineOpenQuote == <<"P",":"," ">> \o T_string \o <<" ","="," ","\"","r","e">>

LineCloseQuote == <<"f","l","\"",";">>

\* C1: a line with two well-formed declarations under distinct names, here
\*   A: i32 = 1; B: string = "x";
\* leaves an entry for each of the names in the store of a successful parse.
C1_BothDeclarationsStored ==
  (pc = "done" /\ \E k \in 1..Len(file) : file[k] = LineAB)
    => {<<"A">>, <<"B">>} \subseteq DOMAIN result.variables

\* C2: a file with a declaration under an unrecognized type keyword, here
\*   X: foo = 1;
\* never parses successfully: the call ends failed, with an error and no store.
C2_UnknownTagFails ==
  (\E k \in 1..Len(file) : file[k] = LineXfoo)
    => (pc # "done" /\ result.kind # "Ok")

\* C3: a string declaration whose value text is quoted, here
\*   N: string = "hello";
\* stores String(hello): one leading and one trailing quote are removed.
C3_QuotesStripped ==
  LastIs(LineNHello)
    => /\ <<"N">> \in DOMAIN variables
       /\ variables[<<"N">>] = VString(<<"h","e","l","l","o">>)

\* C9: a string declaration whose quoted value spans a line break (the
\* opening quote on one line, the closing quote and the terminator on the
\* next) is stored under its name as the String of the two parts joined by
\* the line break, without the quotes.
C9_ValueAcrossLines ==
  (pc = "done" /\ \E k \in 1..(Len(file) - 1) :
                     file[k] = LineOpenQuote /\ file[k + 1] = LineCloseQuote)
    => /\ <<"P">> \in DOMAIN result.variables
       /\ result.variables[<<"P">>] = VString(<<"r","e","\n","f","l">>)

\* C5: a failure of the line source (at the open or at any line) ends the
\* call at once in the failed state with that error and without a store, and
\* nothing is processed afterwards; a store is returned only by a call that
\* read every line, and it is the store built from all of them.
C5_StateOk ==
  /\ pc = "failed" => result.kind = "Err"
  /\ result.kind = "Ok" =>
       /\ pc = "done"
       /\ idx = Len(file) + 1
       /\ result.variables = variables
       /\ \A i \in 1..Len(processed) : processed[i].name \in DOMAIN result.variables
  /\ result.kind = "none" <=> pc \in {"start", "reading"}

C5_AllOrNothing ==
  /\ []C5_StateOk
  /\ [][pc = "failed" => vars' = vars]_vars
  /\ [][(pc' = "failed" /\ pc # "failed") =>
          (result'.kind = "Err" /\ idx' = idx /\ processed' = processed)]_vars

\* a read failure after declarations had been stored, with lines left unread
C5_Witness ==
  /\ pc = "failed"
  /\ result = Err("io")
  /\ processed # << >>
  /\ idx <= Len(file)

\* C6: while a call has not failed, every name of the store maps to the value
\* of the declaration processed last under that name, every processed name is
\* in the store, and so earlier declarations under the name leave no trace
\* and other names keep their values.
C6_LastWriteWins ==
  pc # "failed" =>
    /\ \A n \in DOMAIN variables :
         \E i \in 1..Len(processed) :
           /\ processed[i].name = n
           /\ processed[i].val = variables[n]
           /\ \A j \in (i + 1)..Len(processed) : processed[j].name # n
    /\ \A i \in 1..Len(processed) : processed[i].name \in DOMAIN variables

\* A is declared twice, the second time under another keyword and coercing
\* to Null, with B declared in between
C6_Witness ==
  /\ pc = "done"
  /\ Len(processed) = 3
  /\ processed[1].name = <<"A">> /\ processed[1].val = VInt("I32", FALSE, <<7>>)
  /\ processed[2].name = <<"B">> /\ processed[2].val = VChar("x")
  /\ processed[3].name = <<"A">> /\ processed[3].val = Null
  /\ variables = (<<"A">> :> Null) @@ (<<"B">> :> VChar("x"))

IntKeywords == {T_i32, T_i64, T_u32, T_u64}

FloatKeywords == {T_f32, T_f64}

AGE == <<"A","G","E">>

Thirty == [kind |-> "finite", neg |-> FALSE, mant |-> <<3>>, p |-> 2]

\* what the text 30 is under each of the nine keywords
ValueOf30(tag) ==
  CASE tag = T_string -> VString(<<"3","0">>)
    [] tag = T_i32 -> VInt("I32", FALSE, <<3,0>>)
    [] tag = T_i64 -> VInt("I64", FALSE, <<3,0>>)
    [] tag = T_u32 -> VInt("U32", FALSE, <<3,0>>)
    [] tag = T_u64 -> VInt("U64", FALSE, <<3,0>>)
    [] tag = T_f32 -> VFloat("F32", Thirty)
    [] tag = T_f64 -> VFloat("F64", Thirty)
    [] tag = T_bool -> Null
    [] tag = T_char -> VChar("3")

\* C4 as stated: the keywords are string, int32, ..., float64, bool, char,
\* so that  AGE: int32 = 30;  stores the signed 32-bit integer 30 under AGE.
C4_Int32Keyword ==
  LastIs(Decl(AGE, T_int32, V_30))
    => /\ <<AGE, VInt("I32", FALSE, <<3,0>>)>> \in CapturedFrom(idx - 1)
       /\ AGE \in DOMAIN variables
       /\ variables[AGE] = VInt("I32", FALSE, <<3,0>>)

\* C4 as amended: the keywords are string, i32, i64, u32, u64, f32, f64,
\* bool, char.  A well-formed declaration under one of these nine is
\* captured and coerced under it (AGE: i32 = 30; stores the signed 32-bit
\* integer 30); one under any other keyword, int32 ... float64 included,
\* contributes no declaration.
C4_Table == {<<Decl(AGE, tag, V_30), ValueOf30(tag)>> : tag \in NineKeywords}

C4_OtherKeywords ==
  {Decl(AGE, tag, V_30) : tag \in OtherKeywords}

C4_RegexKeywords ==
  /\ \A row \in C4_Table :
       LastIs(row[1]) =>
         /\ CapturedFrom(idx - 1) = {<<AGE, row[2]>>}
         /\ AGE \in DOMAIN variables
         /\ variables[AGE] = row[2]
  /\ LastIn(C4_OtherKeywords) => CapturedFrom(idx - 1) = {}

C4_Witness ==
  /\ pc = "done"
  /\ LastIs(Decl(AGE, T_i32, V_30))
  /\ result.variables[AGE] = VInt("I32", FALSE, <<3,0>>)

\* value texts that are not a number in any notation
NotNumbers == {V_true, V_True, V_maybe, V_qhello}

\* value texts that are not a decimal integer literal
NotIntegers == NotNumbers \cup {V_1p5, V_1e40, V_1e400, V_inf}

\* decimal integer literals outside the range of the keyword's type
OutOfRange(tag) ==
  CASE tag = T_i32 -> {V_i32max1, V_i32min1, V_u32max, V_u32max1, V_i64max, V_i64max1,
                       V_i64min, V_i64min1, V_u64max, V_u64max1}
    [] tag = T_u32 -> {V_u32max1, V_i64max, V_i64max1, V_u64max, V_u64max1}
    [] tag = T_i64 -> {V_i64max1, V_i64min1, V_u64max, V_u64max1}
    [] tag = T_u64 -> {V_u64max1}

\* the value texts of the model that fail to parse under the keyword's rule
Unparseable(tag) ==
  CASE tag \in IntKeywords -> NotIntegers \cup OutOfRange(tag)
    [] tag \in FloatKeywords -> NotNumbers
    [] tag = T_bool -> ValueTexts \ {V_empty, V_null, V_true}
    [] tag = T_char -> {}

\* C7: a declaration under a numeric, bool or char keyword whose value text
\* is not empty, is not null and fails to parse under the keyword's rule
\* stores Null under its name and the call goes on; a call fails only on a
\* failure of the line source, never on the content of a value.
C7_Lines ==
  {Decl(<<"V">>, tt[1], tt[2]) :
     tt \in {pair \in (NineKeywords \ {T_string}) \X ValueTexts :
               pair[2] \in Unparseable(pair[1])}}

C8_Lines ==
  UNION {{DeclNoValue(<<"V">>, tag), Decl(<<"V">>, tag, V_empty), Decl(<<"V">>, tag, V_null)} :
           tag \in NineKeywords}
  \cup {<<"V"," ",":"," "," ">> \o T_string \o <<"="," ","n","u","l","l"," "," ",";">>,
        <<"V",":"," ">> \o T_char \o <<" ","="," ","\t","n","u","l","l","\t",";">>}

C8_AbsentIsNull ==
  /\ LastIn(C8_Lines) => (<<"V">> \in DOMAIN variables /\ variables[<<"V">>] = Null)
  /\ \A n \in DOMAIN variables :
       variables[n] \notin {VString(V_null), VString(<< >>)}

C8_Witness ==
  /\ pc = "done"
  /\ LastIs(Decl(<<"V">>, T_char, V_null))
  /\ result.variables[<<"V">>] = Null

\* C10 as stated: under u32 and u64 a value text with a leading sign, + as
\* well as -, stores Null.
C10_SignedLines ==
  {Decl(<<"V">>, tag, text) : tag \in {T_u32, T_u64}, text \in {V_plus5, V_minus5}}

C10_SignsRejected ==
  LastIn(C10_SignedLines) => (<<"V">> \in DOMAIN variables /\ variables[<<"V">>] = Null)

\* the value texts of the model that are decimal digits, with or without a
\* leading +, within the range of the unsigned type
UnsignedTexts(tag) ==
  {V_30, V_plus5, V_1, V_i32max, V_i32max1, V_u32max}
    \cup IF tag = T_u64 THEN {V_u32max1, V_i64max, V_i64max1, V_u64max} ELSE {}

\* C10 as amended: under u32 and u64 a value text with a leading - stores
\* Null, a leading + is accepted (+5 stores the unsigned integer 5), and an
\* unsigned integer is stored exactly for decimal digit text within range,
\* with or without a leading +.
C10_MinusLines ==
  {Decl(<<"V">>, tag, text) : tag \in {T_u32, T_u64}, text \in {V_minus5, V_i32min, V_i64min}}

C10_Lines(tag) == {Decl(<<"V">>, tag, text) : text \in ValueTexts}

C10_UnsignedLines(tag) == {Decl(<<"V">>, tag, text) : text \in UnsignedTexts(tag)}

C10_U32Lines == C10_Lines(T_u32)

C10_U32Good == C10_UnsignedLines(T_u32)

C10_U64Lines == C10_Lines(T_u64)

C10_U64Good == C10_UnsignedLines(T_u64)

C10_MinusRejectedPlusAccepted ==
  /\ LastIn(C10_MinusLines) => variables[<<"V">>] = Null
  /\ LastIs(Decl(<<"V">>, T_u32, V_plus5)) => variables[<<"V">>] = VInt("U32", FALSE, <<5>>)
  /\ LastIs(Decl(<<"V">>, T_u64, V_plus5)) => variables[<<"V">>] = VInt("U64", FALSE, <<5>>)
  /\ LastIn(C10_U32Lines) =>
       (variables[<<"V">>].tag = "U32" <=> file[idx - 1] \in C10_U32Good)
  /\ LastIn(C10_U64Lines) =>
       (variables[<<"V">>].tag = "U64" <=> file[idx - 1] \in C10_U64Good)

C10_Witness ==
  /\ pc = "done"
  /\ LastIs(Decl(<<"V">>, T_u32, V_plus5))
  /\ result.variables[<<"V">>] = VInt("U32", FALSE, <<5>>)

====
